---- MODULE Spec2Model ----
(***************************************************************************)
(* Model of the base85 crate (RFC 1924 alphabet): src/src/lib.rs.          *)
(* Bytes and characters are integers 0..255; a &str / &[u8] / Vec<u8> is a *)
(* sequence of them.  A Result is a record with a tag.                     *)
(***************************************************************************)
EXTENDS Integers, Sequences, FiniteSets, TLC

\* ---------------------------------------------------------------- bounds
MaxLen == 5       \* longest byte input handed to encode
MaxText == 6      \* longest hand-written text handed to decode
MaxWsLen == 5     \* longest byte input of the whitespace scenario
MaxWs == 2        \* most whitespace bytes inserted into an encoded text

SeqsUpTo(S, n) == UNION {[1..k -> S] : k \in 0..n}

\* ------------------------------------------------------ alphabet mapping
\* b"0123456789ABCDEFGHIJKLMNOPQRSTUVWXYZabcdefghijklmnopqrstuvwxyz
\*   !#$%&()*+-;<=>?@^_`{|}~" as ASCII codes
B85_TO_CHAR ==
    << 48, 49, 50, 51, 52, 53, 54, 55, 56, 57,
       65, 66, 67, 68, 69, 70, 71, 72, 73, 74, 75, 76, 77,
       78, 79, 80, 81, 82, 83, 84, 85, 86, 87, 88, 89, 90,
       97, 98, 99, 100, 101, 102, 103, 104, 105, 106, 107, 108, 109,
       110, 111, 112, 113, 114, 115, 116, 117, 118, 119, 120, 121, 122,
       33, 35, 36, 37, 38, 40, 41, 42, 43, 45, 59, 60, 61, 62, 63, 64,
       94, 95, 96, 123, 124, 125, 126 >>

\* the value that stands for a panic of byte_to_char85 (index out of bounds)
NoChar == -1

\* B85_TO_CHAR[x85 as usize]; an index past the table panics
byte_to_char85(x85) ==
    IF x85 + 1 \in DOMAIN B85_TO_CHAR THEN B85_TO_CHAR[x85 + 1] ELSE NoChar

OkDigit(n) == [tag |-> "Ok", val |-> n]
InvalidDigit(c) == [tag |-> "InvalidCharacter", val |-> c]

\* faulty variant: the lower-case range starts at 35 instead of 36
char85_to_byte_lower35(c) ==
    CASE c \in 48..57 -> OkDigit(c - 48)
      [] c \in 65..90 -> OkDigit(c - 65 + 10)
      [] c \in 97..122 -> OkDigit(c - 97 + 35)
      [] c = 33 -> OkDigit(62)
      [] c = 35 -> OkDigit(63)
      [] c = 36 -> OkDigit(64)
      [] c = 37 -> OkDigit(65)
      [] c = 38 -> OkDigit(66)
      [] c = 40 -> OkDigit(67)
      [] c = 41 -> OkDigit(68)
      [] c = 42 -> OkDigit(69)
      [] c = 43 -> OkDigit(70)
      [] c = 45 -> OkDigit(71)
      [] c = 59 -> OkDigit(72)
      [] c = 60 -> OkDigit(73)
      [] c = 61 -> OkDigit(74)
      [] c = 62 -> OkDigit(75)
      [] c = 63 -> OkDigit(76)
      [] c = 64 -> OkDigit(77)
      [] c = 94 -> OkDigit(78)
      [] c = 95 -> OkDigit(79)
      [] c = 96 -> OkDigit(80)
      [] c = 123 -> OkDigit(81)
      [] c = 124 -> OkDigit(82)
      [] c = 125 -> OkDigit(83)
      [] c = 126 -> OkDigit(84)
      [] OTHER -> InvalidDigit(c)

\* the match of char85_to_byte, arm by arm
char85_to_byte(c) ==
    CASE c \in 48..57 -> OkDigit(c - 48)
      [] c \in 65..90 -> OkDigit(c - 65 + 10)
      [] c \in 97..122 -> OkDigit(c - 97 + 36)
      [] c = 33 -> OkDigit(62)
      [] c = 35 -> OkDigit(63)
      [] c = 36 -> OkDigit(64)
      [] c = 37 -> OkDigit(65)
      [] c = 38 -> OkDigit(66)
      [] c = 40 -> OkDigit(67)
      [] c = 41 -> OkDigit(68)
      [] c = 42 -> OkDigit(69)
      [] c = 43 -> OkDigit(70)
      [] c = 45 -> OkDigit(71)
      [] c = 59 -> OkDigit(72)
      [] c = 60 -> OkDigit(73)
      [] c = 61 -> OkDigit(74)
      [] c = 62 -> OkDigit(75)
      [] c = 63 -> OkDigit(76)
      [] c = 64 -> OkDigit(77)
      [] c = 94 -> OkDigit(78)
      [] c = 95 -> OkDigit(79)
      [] c = 96 -> OkDigit(80)
      [] c = 123 -> OkDigit(81)
      [] c = 124 -> OkDigit(82)
      [] c = 125 -> OkDigit(83)
      [] c = 126 -> OkDigit(84)
      [] OTHER -> InvalidDigit(c)

\* ------------------------------------------------------ 32-bit arithmetic
\* A u32 (and a usize holding one) is kept as two 16-bit limbs,
\* value = hi * 65536 + lo, since the values pass 2^31.  A value that has
\* not been wrapped yet may have hi >= 65536.
Limb == 65536

U(hi, lo) == [hi |-> hi, lo |-> lo]

\* `b as u32`
ByteAsU32(b) == U(0, b)

\* bitwise or of two naturals
RECURSIVE BitOr(_, _)
BitOr(a, b) ==
    IF a = 0 THEN b
    ELSE IF b = 0 THEN a
    ELSE (IF a % 2 = 1 \/ b % 2 = 1 THEN 1 ELSE 0) + 2 * BitOr(a \div 2, b \div 2)

\* v | w on u32
Or(v, w) == U(BitOr(v.hi, w.hi), BitOr(v.lo, w.lo))

\* v.overflowing_shl(8).0: the bits shifted past bit 31 are lost
Shl8(v) == U((v.hi * 256 + (v.lo \div 256)) % Limb, (v.lo * 256) % Limb)

\* v.overflowing_shl(k).0 for k = 0, 8, 16, 24
RECURSIVE Shl(_, _)
Shl(v, k) == IF k = 0 THEN v ELSE Shl(Shl8(v), k - 8)

\* v / n and v % n for a u32 v and 0 < n < 2^30, by halving v so that every
\* intermediate value stays below 2^31: v = 2 * h + bit
DivU(v, n) ==
    LET h == v.hi * 32768 + (v.lo \div 2)
        t == 2 * (h % n) + (v.lo % 2)
    IN 2 * (h \div n) + (t \div n)

ModU(v, n) ==
    LET h == v.hi * 32768 + (v.lo \div 2)
        t == 2 * (h % n) + (v.lo % 2)
    IN t % n

\* v * m + d, not wrapped (m, d < 256 and v a u32)
MulAdd(v, m, d) ==
    LET l == v.lo * m + d
    IN U(v.hi * m + (l \div Limb), l % Limb)

\* whether an unwrapped value does not fit a u32
Overflows(v) == v.hi >= Limb

\* the value a wrapping u32 operation leaves
Wrap(v) == U(v.hi % Limb, v.lo)

\* the greater of two unwrapped values
MaxU(v, w) ==
    IF v.hi > w.hi \/ (v.hi = w.hi /\ v.lo >= w.lo) THEN v ELSE w

\* ---------------------------------------------------------------- encode
\* `x as u8`
AsU8(x) == x % 256

\* faulty variant: the remainder is not reduced before the second digit is taken
ChunkDigits_noreduce(decnum) ==
    LET r1 == ModU(decnum, 52200625)
        r2 == r1 % 614125
        r3 == r2 % 7225
    IN << AsU8(DivU(decnum, 52200625)), AsU8(DivU(decnum, 614125)),
          AsU8(r2 \div 7225), AsU8(r3 \div 85), AsU8(r3 % 85) >>

\* the five values one full chunk passes to byte_to_char85 (lines 85-95)
ChunkDigits(decnum) ==
    LET r1 == ModU(decnum, 52200625)
        r2 == r1 % 614125
        r3 == r2 % 7225
    IN << AsU8(DivU(decnum, 52200625)), AsU8(r1 \div 614125),
          AsU8(r2 \div 7225), AsU8(r3 \div 85), AsU8(r3 % 85) >>

\* faulty variant: a partial chunk emits one digit per byte instead of one more
LastDigits_short(last_chunk, extra_bytes) ==
    SubSeq(ChunkDigits(last_chunk), 1, extra_bytes)

\* the values the final partial chunk passes to byte_to_char85 (lines 118-130)
LastDigits(last_chunk, extra_bytes) ==
    LET r1 == ModU(last_chunk, 52200625)
        r2 == r1 % 614125
        r3 == r2 % 7225
    IN << AsU8(DivU(last_chunk, 52200625)), AsU8(r1 \div 614125) >>
       \o (IF extra_bytes > 1
           THEN << AsU8(r2 \div 7225) >>
                \o (IF extra_bytes > 2 THEN << AsU8(r3 \div 85) >> ELSE << >>)
           ELSE << >>)

\* decnum of the chunk at data_index (0-based, sequences are 1-based)
Decnum(indata, data_index) ==
    Or(Or(Or(Shl(ByteAsU32(indata[data_index + 1]), 24),
             Shl(ByteAsU32(indata[data_index + 2]), 16)),
          Shl(ByteAsU32(indata[data_index + 3]), 8)),
       ByteAsU32(indata[data_index + 4]))

\* the `for _i in 0..chunk_count` loop
RECURSIVE EncodeChunks(_, _, _)
EncodeChunks(indata, data_index, left) ==
    IF left = 0 THEN << >>
    ELSE ChunkDigits(Decnum(indata, data_index))
         \o EncodeChunks(indata, data_index + 4, left - 1)

\* the `for i in length - extra_bytes..length` loop
RECURSIVE LastChunkFill(_, _, _)
LastChunkFill(indata, i, last_chunk) ==
    IF i >= Len(indata) THEN last_chunk
    ELSE LastChunkFill(indata, i + 1, Or(Shl8(last_chunk), ByteAsU32(indata[i + 1])))

\* the `while i > 0` loop that pads with zero bytes
RECURSIVE LastChunkPad(_, _)
LastChunkPad(last_chunk, i) ==
    IF i > 0 THEN LastChunkPad(Shl8(last_chunk), i - 1) ELSE last_chunk

\* every value encode passes to byte_to_char85, in order
EncodeDigits(indata) ==
    LET length == Len(indata)
        chunk_count == length \div 4
        extra_bytes == length % 4
        last_chunk == LastChunkPad(LastChunkFill(indata, length - extra_bytes, U(0, 0)),
                                   4 - extra_bytes)
    IN EncodeChunks(indata, 0, chunk_count)
       \o (IF extra_bytes # 0 THEN LastDigits(last_chunk, extra_bytes) ELSE << >>)

\* encode: the String, or a panic (table index out of range, or from_utf8)
encode(indata) ==
    IF Len(indata) = 0 THEN [tag |-> "Ok", str |-> << >>, digits |-> << >>]
    ELSE LET digits == EncodeDigits(indata)
             outdata == [k \in DOMAIN digits |-> byte_to_char85(digits[k])]
         IN IF \E k \in DOMAIN outdata : outdata[k] = NoChar \/ outdata[k] > 127
            THEN [tag |-> "Panic", str |-> << >>, digits |-> digits]
            ELSE [tag |-> "Ok", str |-> outdata, digits |-> digits]

\* ---------------------------------------------------------------- decode
IsWhitespace(b) == b \in {32, 10, 11, 13}

\* the value a missing trailing symbol of the final group is given (line 196)
PadValue == 126

DecOk(data) == [tag |-> "Ok", data |-> data, c |-> NoChar]
DecInvalid(c) == [tag |-> "InvalidCharacter", data |-> << >>, c |-> c]
DecPanic == [tag |-> "Panic", data |-> << >>, c |-> NoChar]

Loop(st, pos, acc, peak, c) ==
    [st |-> st, pos |-> pos, acc |-> acc, peak |-> peak, c |-> c]

\* (accumulator >> 24) as u8, ((accumulator >> 16) & 255) as u8,
\* ((accumulator >> 8) & 255) as u8, (accumulator & 255) as u8
Byte3(accumulator) == accumulator.hi \div 256
Byte2(accumulator) == accumulator.hi % 256
Byte1(accumulator) == accumulator.lo \div 256
Byte0(accumulator) == accumulator.lo % 256

\* The `while i < 5` loop of a full chunk.  pos is the 1-based place of the
\* byte in_index.next() gives next; peak is the greatest value any
\* accumulator * 85 + digit has had; oc tells whether the build checks
\* arithmetic overflow (it then panics) or wraps.
RECURSIVE ChunkLoop(_, _, _, _, _, _)
ChunkLoop(instr, pos, i, accumulator, peak, oc) ==
    IF ~(i < 5) \/ pos > Len(instr) THEN Loop("done", pos, accumulator, peak, NoChar)
    ELSE LET b == instr[pos] IN
         IF IsWhitespace(b) THEN ChunkLoop(instr, pos + 1, i, accumulator, peak, oc)
         ELSE LET d == char85_to_byte(b) IN
              IF d.tag # "Ok" THEN Loop("err", pos + 1, accumulator, peak, d.val)
              ELSE LET v == MulAdd(accumulator, 85, d.val) IN
                   IF Overflows(v) /\ oc
                   THEN Loop("panic", pos + 1, accumulator, MaxU(peak, v), NoChar)
                   ELSE ChunkLoop(instr, pos + 1, i + 1, Wrap(v), MaxU(peak, v), oc)

\* the `for _chunk in 0..length / 5` loop; r is what the inner loop of the
\* chunk at hand gave
RECURSIVE DecodeChunks(_, _, _, _, _, _)
RECURSIVE ChunkDone(_, _, _, _, _)
ChunkDone(instr, left, outdata, r, oc) ==
    IF r.st # "done"
    THEN [st |-> r.st, pos |-> r.pos, outdata |-> outdata, peak |-> r.peak, c |-> r.c]
    ELSE DecodeChunks(instr, r.pos, left - 1,
                      outdata \o << Byte3(r.acc), Byte2(r.acc), Byte1(r.acc),
                                    Byte0(r.acc) >>,
                      r.peak, oc)

DecodeChunks(instr, pos, left, outdata, peak, oc) ==
    IF left = 0
    THEN [st |-> "done", pos |-> pos, outdata |-> outdata, peak |-> peak, c |-> NoChar]
    ELSE ChunkDone(instr, left, outdata, ChunkLoop(instr, pos, 0, U(0, 0), peak, oc), oc)

\* the `while i < 5` loop of the final partial group (lines 178-200)
RECURSIVE RemLoop(_, _, _, _, _, _, _)
RemLoop(instr, pos, i, remainder, accumulator, peak, oc) ==
    IF ~(i < 5) THEN Loop("done", pos, accumulator, peak, NoChar)
    ELSE IF i < remainder
    THEN IF pos > Len(instr) THEN Loop("done", pos, accumulator, peak, NoChar)
         ELSE LET b == instr[pos] IN
              IF IsWhitespace(b)
              THEN RemLoop(instr, pos + 1, i, remainder, accumulator, peak, oc)
              ELSE LET d == char85_to_byte(b) IN
                   IF d.tag # "Ok" THEN Loop("err", pos + 1, accumulator, peak, d.val)
                   ELSE LET v == MulAdd(accumulator, 85, d.val) IN
                        IF Overflows(v) /\ oc
                        THEN Loop("panic", pos + 1, accumulator, MaxU(peak, v), NoChar)
                        ELSE RemLoop(instr, pos + 1, i + 1, remainder, Wrap(v),
                                     MaxU(peak, v), oc)
    ELSE LET v == MulAdd(accumulator, 85, PadValue) IN
         IF Overflows(v) /\ oc THEN Loop("panic", pos, accumulator, MaxU(peak, v), NoChar)
         ELSE RemLoop(instr, pos, i + 1, remainder, Wrap(v), MaxU(peak, v), oc)

\* faulty variant: the final group pushes as many bytes as it has symbols
TailBytes_onemore(accumulator, remainder) ==
    IF remainder \in {2, 3, 4}
    THEN [panic |-> FALSE,
          bytes |-> SubSeq(<< Byte3(accumulator), Byte2(accumulator),
                              Byte1(accumulator), Byte0(accumulator) >>, 1, remainder)]
    ELSE [panic |-> TRUE, bytes |-> << >>]

\* `match remainder`: the bytes the final group pushes, or panic!()
TailBytes(accumulator, remainder) ==
    CASE remainder = 4 -> [panic |-> FALSE, bytes |->
                            << Byte3(accumulator), Byte2(accumulator), Byte1(accumulator) >>]
      [] remainder = 3 -> [panic |-> FALSE, bytes |->
                            << Byte3(accumulator), Byte2(accumulator) >>]
      [] remainder = 2 -> [panic |-> FALSE, bytes |-> << Byte3(accumulator) >>]
      [] OTHER -> [panic |-> TRUE, bytes |-> << >>]

\* the end of decode once the final group's loop gave r and its match gave t
DecodeTail(outdata, r, t) ==
    IF r.st = "err" THEN [res |-> DecInvalid(r.c), peak |-> r.peak]
    ELSE IF r.st = "panic" \/ t.panic THEN [res |-> DecPanic, peak |-> r.peak]
    ELSE [res |-> DecOk(outdata \o t.bytes), peak |-> r.peak]

\* lines 173-220, r being what the final group's loop gave
DecodeRemainder(outdata, r, remainder) ==
    DecodeTail(outdata, r, TailBytes(r.acc, remainder))

\* decode after its chunk loop gave ch
DecodeAfterChunks(instr, ch, remainder, oc) ==
    IF ch.st = "err" THEN [res |-> DecInvalid(ch.c), peak |-> ch.peak]
    ELSE IF ch.st = "panic" THEN [res |-> DecPanic, peak |-> ch.peak]
    ELSE IF remainder > 0
    THEN DecodeRemainder(ch.outdata,
                         RemLoop(instr, ch.pos, 0, remainder, U(0, 0), ch.peak, oc),
                         remainder)
    ELSE [res |-> DecOk(ch.outdata), peak |-> ch.peak]

\* decode, with the ghost value peak beside its result
DecodeRun(instr, oc) ==
    DecodeAfterChunks(instr,
                      DecodeChunks(instr, 1, Len(instr) \div 5, << >>, U(0, 0), oc),
                      Len(instr) % 5, oc)

decode(instr, oc) == DecodeRun(instr, oc).res

\* ----------------------------------------------------------------- state
\* One client of the library making one call sequence.
VARIABLES
    pc,               \* "idle", "encoded", "decoded", "char", "digit"
    overflow_checks,  \* the build: TRUE panics on arithmetic overflow, FALSE wraps
    indata,           \* the bytes handed to encode
    encoded,          \* what encode gave
    text,             \* the encoded text, with any whitespace the client put in
    instr,            \* the text handed to decode
    decoded,          \* what decode gave
    acc_peak,         \* greatest accumulator * 85 + value of that decode call
    x85,              \* the value handed to byte_to_char85, NoChar when none
    ch,               \* the character handed to char85_to_byte
    digit             \* what char85_to_byte gave

vars == << pc, overflow_checks, indata, encoded, text, instr, decoded, acc_peak,
           x85, ch, digit >>

\* ---------------------------------------------------------------- inputs
ByteSamples == {0, 1, 97, 128, 255}

RECURSIVE Repeat(_, _)
Repeat(b, k) == IF k = 0 THEN << >> ELSE << b >> \o Repeat(b, k - 1)

\* every short sequence of sample bytes, and every byte value 0..255 as the
\* last byte at every length
ByteInputs ==
    SeqsUpTo(ByteSamples, MaxLen)
    \cup {Repeat(97, k) \o << b >> : k \in 0..(MaxLen - 1), b \in 0..255}

\* '0', '2', '~', space, tab
TextChars == {48, 50, 126, 32, 9}

TextInputs == SeqsUpTo(TextChars, MaxText)

WsInputs == {Repeat(97, k) : k \in 0..MaxWsLen}

NoEncoded == [tag |-> "None", str |-> << >>, digits |-> << >>]
NoDecoded == [tag |-> "None", data |-> << >>, c |-> NoChar]
NoDigit == [tag |-> "None", val |-> NoChar]

Init ==
    /\ pc = "idle"
    /\ overflow_checks \in BOOLEAN
    /\ indata = << >>
    /\ encoded = NoEncoded
    /\ text = << >>
    /\ instr = << >>
    /\ decoded = NoDecoded
    /\ acc_peak = U(0, 0)
    /\ x85 = NoChar
    /\ ch = NoChar
    /\ digit = NoDigit

\* --------------------------------------------------------------- actions
\* the client calls encode(b)
Encode(inputs) ==
    /\ pc = "idle"
    /\ \E b \in inputs :
           /\ indata' = b
           /\ encoded' = encode(b)
    /\ text' = encoded'.str
    /\ pc' = "encoded"
    /\ UNCHANGED << overflow_checks, instr, decoded, acc_peak, x85, ch, digit >>

\* the client puts one whitespace byte w before place p of the encoded text
InsertWhitespace ==
    /\ pc = "encoded"
    /\ encoded.tag = "Ok"
    /\ Len(text) < Len(encoded.str) + MaxWs
    /\ \E p \in 1..(Len(text) + 1), w \in {32, 10, 11, 13} :
           text' = SubSeq(text, 1, p - 1) \o << w >> \o SubSeq(text, p, Len(text))
    /\ UNCHANGED << pc, overflow_checks, indata, encoded, instr, decoded, acc_peak,
                    x85, ch, digit >>

\* the client calls decode on the text it holds
DecodeEncoded ==
    /\ pc = "encoded"
    /\ encoded.tag = "Ok"
    /\ instr' = text
    /\ LET r == DecodeRun(text, overflow_checks) IN
           /\ decoded' = r.res
           /\ acc_peak' = r.peak
    /\ pc' = "decoded"
    /\ UNCHANGED << overflow_checks, indata, encoded, text, x85, ch, digit >>

\* the client calls decode on a text s of its own
DecodeText ==
    /\ pc = "idle"
    /\ \E s \in TextInputs :
           /\ instr' = s
           /\ LET r == DecodeRun(s, overflow_checks) IN
                  /\ decoded' = r.res
                  /\ acc_peak' = r.peak
    /\ pc' = "decoded"
    /\ UNCHANGED << overflow_checks, indata, encoded, text, x85, ch, digit >>

\* byte_to_char85(d)
ByteToChar ==
    /\ pc = "idle"
    /\ \E d \in 0..255 :
           /\ x85' = d
           /\ ch' = byte_to_char85(d)
    /\ pc' = "char"
    /\ UNCHANGED << overflow_checks, indata, encoded, text, instr, decoded, acc_peak,
                    digit >>

\* char85_to_byte on the character byte_to_char85 gave
CharBack ==
    /\ pc = "char"
    /\ ch # NoChar
    /\ digit' = char85_to_byte(ch)
    /\ pc' = "digit"
    /\ UNCHANGED << overflow_checks, indata, encoded, text, instr, decoded, acc_peak,
                    x85, ch >>

\* char85_to_byte(c)
CharToByte ==
    /\ pc = "idle"
    /\ \E c \in 0..255 :
           /\ ch' = c
           /\ digit' = char85_to_byte(c)
    /\ pc' = "digit"
    /\ UNCHANGED << overflow_checks, indata, encoded, text, instr, decoded, acc_peak,
                    x85 >>

Next ==
    \/ Encode(ByteInputs)
    \/ DecodeEncoded
    \/ DecodeText
    \/ ByteToChar
    \/ CharBack
    \/ CharToByte

Spec == Init /\ [][Next]_vars

\* the whitespace scenario: encode, put whitespace in, decode
NextWs ==
    \/ Encode(WsInputs)
    \/ InsertWhitespace
    \/ DecodeEncoded

SpecWs == Init /\ [][NextWs]_vars

\* ------------------------------------------------- reference definitions
\* What the specification says, written without the code's operators.
Range(s) == {s[k] : k \in DOMAIN s}

\* the 85 characters of the alphabet, as a set of ASCII codes
Alphabet ==
    (48..57) \cup (65..90) \cup (97..122)
    \cup {33, 35, 36, 37, 38, 40, 41, 42, 43, 45, 59, 60, 61, 62, 63, 64,
          94, 95, 96, 123, 124, 125, 126}

\* space, LF, VT, CR: the bytes the specification has decode skip
SkippedSet == {32, 10, 11, 13}

\* the digit value of an alphabet character: its place in the alphabet string
DigitOf(c) == (CHOOSE k \in DOMAIN B85_TO_CHAR : B85_TO_CHAR[k] = c) - 1

\* the alphabet character of a digit value
CharOf(d) == B85_TO_CHAR[d + 1]

StripSet(s, S) == SelectSeq(s, LAMBDA c : c \notin S)

Pow85 == << 52200625, 614125, 7225, 85 >>

\* digit[i] = (v / 85^(4-i)) mod 85 for i = 0..4
RefDigit(v, i) == IF i = 4 THEN ModU(v, 85) ELSE DivU(v, Pow85[i + 1]) % 85

\* the byte at place k of a group, zero past the end of the input
RefByte(b, k) == IF k <= Len(b) THEN b[k] ELSE 0

\* v = b0<<24 | b1<<16 | b2<<8 | b3 of the group that starts at place k
RefValue(b, k) ==
    U(RefByte(b, k) * 256 + RefByte(b, k + 1),
      RefByte(b, k + 2) * 256 + RefByte(b, k + 3))

\* the reference encoding: 5 characters per full group, n + 1 for a final
\* group of n bytes
RECURSIVE RefEncodeFrom(_, _)
RefEncodeFrom(b, k) ==
    IF k > Len(b) THEN << >>
    ELSE LET n == IF Len(b) - k + 1 >= 4 THEN 4 ELSE Len(b) - k + 1
             v == RefValue(b, k)
         IN [i \in 1..(n + 1) |-> CharOf(RefDigit(v, i - 1))] \o RefEncodeFrom(b, k + 4)

RefEncode(b) == RefEncodeFrom(b, 1)

\* the value of the group of symbols that starts at place k of s, a missing
\* trailing symbol counting as digit 84; not wrapped
RECURSIVE RefGroupValue(_, _, _, _)
RefGroupValue(s, k, i, v) ==
    IF i = 5 THEN v
    ELSE RefGroupValue(s, k, i + 1,
                       MulAdd(v, 85, IF k + i <= Len(s) THEN DigitOf(s[k + i]) ELSE 84))

\* whether every group of s, the padded final one too, has a value below 2^32
GroupsFit(s) ==
    \A g \in 0..((Len(s) + 4) \div 5 - 1) :
        ~Overflows(RefGroupValue(s, 5 * g + 1, 0, U(0, 0)))

\* the four bytes of a value, most significant first
RefBytes(v) == << v.hi \div 256, v.hi % 256, v.lo \div 256, v.lo % 256 >>

\* --------------------------------------------------------------- claims

\* C1: round trip: decode(encode(b)) returns Ok(b) for every byte sequence b;
\* encode itself returns for every b.
RoundTrip ==
    /\ (pc = "encoded" => encoded.tag = "Ok")
    /\ (pc = "decoded" /\ encoded.tag = "Ok" => decoded = DecOk(indata))

RoundTripWitness ==
    /\ pc = "decoded"
    /\ encoded.tag = "Ok"
    /\ Len(indata) = 5
    /\ 255 \in Range(indata)
    /\ instr = encoded.str

\* C2: whitespace insensitivity: decoding an encoded text with bytes 32, 10,
\* 11, 13 put in at any places gives what decoding the text itself gives.
WhitespaceInsensitive ==
    pc = "decoded" /\ encoded.tag = "Ok"
        => decoded = decode(encoded.str, overflow_checks)

\* C3: truncation rejection: a text of alphabet symbols and skipped
\* whitespace whose count of symbols is 1 modulo 5 makes decode return the
\* error UnexpectedEof.
TruncationRejected ==
    /\ pc = "decoded"
    /\ Range(instr) \subseteq (Alphabet \cup SkippedSet)
    /\ Len(StripSet(instr, SkippedSet)) % 5 = 1
    => decoded.tag = "UnexpectedEof"

\* C4: invalid-character rejection: a text holding a byte that is neither an
\* alphabet character nor skipped whitespace makes decode return the error
\* InvalidCharacter and no bytes.
InvalidCharacterRejected ==
    pc = "decoded" /\ ~(Range(instr) \subseteq (Alphabet \cup SkippedSet))
        => decoded.tag = "InvalidCharacter" /\ decoded.data = << >>

\* C5: encode gives the reference encoding: the digits (v / 85^(4-i)) mod 85
\* of each 4-byte group, and the n + 1 leading digits of a final group of n
\* bytes padded with zeros; "a" gives "VE" and "aaaaa" gives "VPRomVE".
EncodeIsReference ==
    encoded.tag # "None" =>
        /\ encoded.tag = "Ok"
        /\ encoded.str = RefEncode(indata)
        /\ (indata = << 97 >> => encoded.str = << 86, 69 >>)
        /\ (indata = << 97, 97, 97, 97, 97 >>
                => encoded.str = << 86, 80, 82, 111, 109, 86, 69 >>)

EncodeIsReferenceWitness ==
    /\ pc = "encoded"
    /\ Len(indata) = 5
    /\ indata[5] = 255
    /\ Len(encoded.str) = 7

\* C6: partial-group rule: a whitespace-free text of alphabet symbols whose
\* final group has m symbols, 2 <= m <= 4, decodes to the bytes of its full
\* groups and then the m - 1 most significant bytes of the final group's
\* value, its missing symbols counting as digit 84 (stated for the texts
\* whose group values fit 32 bits).
PartialGroupRule ==
    /\ pc = "decoded"
    /\ Range(instr) \subseteq Alphabet
    /\ Len(instr) % 5 \in 2..4
    /\ GroupsFit(instr)
    => /\ decoded.tag = "Ok"
       /\ Len(decoded.data) = 4 * (Len(instr) \div 5) + (Len(instr) % 5) - 1
       /\ SubSeq(decoded.data, 4 * (Len(instr) \div 5) + 1, Len(decoded.data))
            = SubSeq(RefBytes(RefGroupValue(instr, 5 * (Len(instr) \div 5) + 1, 0,
                                            U(0, 0))),
                     1, (Len(instr) % 5) - 1)

\* C7: the crate documentation: a tab (byte 9) in the text handed to decode
\* is skipped, so the result is that of the text without its tabs.
TabIgnored ==
    pc = "decoded" /\ 9 \in Range(instr)
        => decoded = decode(StripSet(instr, {9}), overflow_checks)

\* C8: the alphabet mapping and its inverse: char85_to_byte(byte_to_char85(d))
\* is Ok(d) for every digit d of 0..84, byte_to_char85(d) being an alphabet
\* character, and char85_to_byte(c) is InvalidCharacter(c) for every byte c
\* outside the alphabet.
AlphabetBijection ==
    /\ (pc \in {"char", "digit"} /\ x85 \in 0..84 => ch \in Alphabet)
    /\ (pc = "digit" /\ x85 # NoChar => digit = OkDigit(x85))
    /\ (pc = "digit" /\ ch \notin Alphabet => digit = InvalidDigit(ch))
    /\ (pc = "digit" /\ ch \in Alphabet => digit.tag = "Ok" /\ digit.val \in 0..84)

AlphabetBijectionWitness ==
    /\ pc = "digit"
    /\ x85 = 84
    /\ ch = 126

\* C9: in decode the value of accumulator * 85 + digit stays within
\* 0 .. 2^32 - 1 at every step, for every text of alphabet symbols.
AccumulatorFits ==
    pc = "decoded" /\ Range(instr) \subseteq Alphabet => ~Overflows(acc_peak)

\* C10: alphabet closure: every value encode hands to byte_to_char85 is in
\* 0..84, so encode returns and every character it gives is of the alphabet.
AlphabetClosure ==
    encoded.tag # "None" =>
        /\ \A k \in DOMAIN encoded.digits : encoded.digits[k] \in 0..84
        /\ encoded.tag = "Ok"
        /\ Range(encoded.str) \subseteq Alphabet

AlphabetClosureWitness ==
    /\ pc = "encoded"
    /\ Len(indata) = 5
    /\ indata[1] = 255
    /\ Len(encoded.digits) = 7

====
